---- MODULE Spec2Model ----
(***************************************************************************)
(* Model of road_analysis: RoadSampler (road_sampler.py) and               *)
(* CollisionAnalyzer (collision_analyzer.py).                              *)
(*                                                                         *)
(* Geometry.  Coordinates are integers.  A planar (UTM) unit is 1/Scale    *)
(* metre, so a length that is not a whole number of metres exists in the   *)
(* model and int(length) truncates.  Road segments are axis-parallel, so   *)
(* every length and every squared distance is an exact integer.            *)
(* Distances are compared through their squares.                           *)
(***************************************************************************)
EXTENDS Integers, Sequences, FiniteSets, TLC

VARIABLES
    road_coords,          \* RoadSampler.road_coords (geographic vertices)
    distance_interval,    \* RoadSampler.distance_interval (metres)
    road_line,            \* RoadSampler.road_line
    road_gdf,             \* RoadSampler.road_gdf
    road_projected,       \* RoadSampler.road_projected
    road_projected_gdf,   \* RoadSampler.road_projected_gdf
    sample_points,        \* RoadSampler.sample_points
    from_osm,             \* RoadSampler.from_osm
    street_name,          \* RoadSampler.street_name
    osm_road_data,        \* RoadSampler.osm_road_data
    osm_roads,            \* the features OpenStreetMap holds for area_name
    sample_dists,         \* distances d of the last range(...) evaluation
    input_collisions,     \* the collision records handed to the analyzer
    input_radius,         \* the radius handed to the analyzer
    analyzer,             \* CollisionAnalyzer instance fields, see AnalyzerNew
    last_exc              \* the exception the last call raised and the
                          \* method called, or NoRaise

vars == <<road_coords, distance_interval, road_line, road_gdf, road_projected,
          road_projected_gdf, sample_points, from_osm, street_name,
          osm_road_data, osm_roads, sample_dists, input_collisions,
          input_radius, analyzer, last_exc>>

samplerVars == <<road_coords, distance_interval, road_line, road_gdf,
                 road_projected, road_projected_gdf, sample_points,
                 from_osm, street_name, osm_road_data, sample_dists>>

inputVars == <<osm_roads, input_collisions, input_radius>>

----------------------------------------------------------------------------
(* Bounds of the model *)

Scale == 2          \* planar units per metre
MaxX == 4           \* grid extent, in planar units
MaxY == 1
MaxVerts == 3       \* vertices of a road
MaxInterval == 2    \* largest sampling interval, metres
MaxRows == 2        \* collision records
MaxSegs == 3        \* features OpenStreetMap returns for the area
Radius == 1         \* search radius, metres

----------------------------------------------------------------------------
(* Python values *)

None == [some |-> FALSE, val |-> <<>>]
Some(v) == [some |-> TRUE, val |-> v]

NoExc == "NoExc"
NoRaise == [call |-> "", exc |-> NoExc]
Raised(call, exc) ==
    IF exc = NoExc THEN NoRaise ELSE [call |-> call, exc |-> exc]

NaN == "NaN"

Abs(n) == IF n < 0 THEN -n ELSE n
Min(a, b) == IF a <= b THEN a ELSE b
Max(a, b) == IF a >= b THEN a ELSE b
Clamp(v, lo, hi) == Max(lo, Min(v, hi))

----------------------------------------------------------------------------
(* Projection: GeoDataFrame.to_crs between EPSG:4326 and the estimated UTM *)
(* zone.  Over the extent of one road it is a bijection between the two    *)
(* frames; the model keeps the frames apart by the zone's false origin.    *)

FalseEasting == 5
FalseNorthing == 7

ToUTM(p) == [x |-> p.x + FalseEasting, y |-> p.y + FalseNorthing]
ToGeo(p) == [x |-> p.x - FalseEasting, y |-> p.y - FalseNorthing]

LineToUTM(line) == [i \in 1..Len(line) |-> ToUTM(line[i])]
LineToGeo(line) == [i \in 1..Len(line) |-> ToGeo(line[i])]

----------------------------------------------------------------------------
(* shapely geometry on axis-parallel polylines *)

SegLen(a, b) == Abs(a.x - b.x) + Abs(a.y - b.y)

RECURSIVE LengthFrom(_, _)
LengthFrom(line, i) ==
    IF i >= Len(line) THEN 0
    ELSE SegLen(line[i], line[i + 1]) + LengthFrom(line, i + 1)

\* LineString.length, in planar units
LineLength(line) == LengthFrom(line, 1)

Sign(n) == IF n > 0 THEN 1 ELSE IF n < 0 THEN -1 ELSE 0

Along(a, b, u) ==
    [x |-> a.x + Sign(b.x - a.x) * u, y |-> a.y + Sign(b.y - a.y) * u]

RECURSIVE InterpFrom(_, _, _)
InterpFrom(line, i, u) ==
    IF i >= Len(line) THEN line[Len(line)]
    ELSE LET l == SegLen(line[i], line[i + 1])
         IN  IF u <= l THEN Along(line[i], line[i + 1], u)
             ELSE InterpFrom(line, i + 1, u - l)

\* LineString.interpolate(d), d in metres
Interpolate(line, d) == InterpFrom(line, 1, d * Scale)

DistSq(p, q) == (p.x - q.x) * (p.x - q.x) + (p.y - q.y) * (p.y - q.y)

SegDistSq(p, a, b) ==
    DistSq(p, [x |-> Clamp(p.x, Min(a.x, b.x), Max(a.x, b.x)),
               y |-> Clamp(p.y, Min(a.y, b.y), Max(a.y, b.y))])

SetMin(S) == CHOOSE m \in S : \A n \in S : m <= n

\* Point.distance(LineString), squared, in planar units; a line without
\* segments has no distance.
LineDistSq(p, line) ==
    IF Len(line) < 2 THEN NaN
    ELSE SetMin({SegDistSq(p, line[i], line[i + 1]) : i \in 1..(Len(line) - 1)})

----------------------------------------------------------------------------
(* Python builtins *)

\* rounding up instead of truncating
IntOfCeil(units) == (units + Scale - 1) \div Scale

\* int(x) of a non-negative length given in planar units: whole metres
IntOf(units) == units \div Scale

RangeLen(stop, step) ==
    IF step > 0 THEN (IF stop <= 0 THEN 0 ELSE (stop + step - 1) \div step)
    ELSE 0

\* a range that includes its stop value
RangeInclusive(stop, step) ==
    IF step > 0 /\ stop >= 0
    THEN [k \in 1..(stop \div step + 1) |-> (k - 1) * step]
    ELSE <<>>

\* list(range(0, stop, step)) for step # 0: 0, step, 2*step, ... while the
\* value is below stop (step > 0) or above stop (step < 0; stop >= 0 here,
\* so nothing)
Range(stop, step) == [k \in 1..RangeLen(stop, step) |-> (k - 1) * step]

\* list(a set of index labels): the iteration order of a set is not
\* specified, so each order is a possible outcome
Orders(S) ==
    {q \in [1..Cardinality(S) -> S] :
        \A i, j \in 1..Cardinality(S) : i # j => q[i] # q[j]}

----------------------------------------------------------------------------
(* RoadSampler.  A method is an operator from the instance's fields (a     *)
(* record s) to the fields after the call, the exception it raised (or     *)
(* NoExc) and, where the claims need it, a local value.                    *)

\* RoadSampler(road_coords=coords, distance_interval=interval,
\* street_name=street): manual mode when street is None, query mode otherwise
SamplerNew(coords, interval, street) ==
    [road_coords |-> coords, distance_interval |-> interval,
     street_name |-> street, from_osm |-> street.some,
     road_line |-> None, road_gdf |-> None, road_projected |-> None,
     road_projected_gdf |-> None, sample_points |-> None,
     osm_road_data |-> None]

\* shapely's LineString(coords): a single coordinate is refused, two or
\* more are accepted, repeated coordinates included.
LineStringRaises(coords) == Len(coords) = 1

\* an OpenStreetMap feature: its name tag, the type of its geometry and the
\* lines of the geometry (one for a LineString, several for a
\* MultiLineString, none for a Point or a Polygon)
Feature(name, geom_type, geoms) ==
    [name |-> name, geom_type |-> geom_type, geoms |-> geoms]

\* roads[roads["name"] == self.street_name]
FilteredRoad(street, roads) ==
    SelectSeq(roads, LAMBDA f : Some(f.name) = street)

RECURSIVE LineStringsFrom(_, _)
LineStringsFrom(filtered, i) ==
    IF i > Len(filtered) THEN <<>>
    ELSE (IF filtered[i].geom_type \in {"LineString", "MultiLineString"}
          THEN filtered[i].geoms ELSE <<>>)
         \o LineStringsFrom(filtered, i + 1)

\* the list linestrings built by the loop over filtered_road.geometry
LineStrings(filtered) == LineStringsFrom(filtered, 1)

Reverse(l) == [i \in 1..Len(l) |-> l[Len(l) + 1 - i]]

\* end e of a line: 1 its first vertex, 2 its last
End(l, e) == IF e = 1 THEN l[1] ELSE l[Len(l)]

\* the number of line ends at point p
EndsAt(lines, p) ==
    Cardinality({t \in (1..Len(lines)) \X {1, 2} : End(lines[t[1]], t[2]) = p})

\* two different lines meeting end to end at a point where no other line ends
Joints(lines) ==
    {t \in (1..Len(lines)) \X (1..Len(lines)) \X {1, 2} \X {1, 2} :
        /\ t[1] < t[2]
        /\ End(lines[t[1]], t[3]) = End(lines[t[2]], t[4])
        /\ EndsAt(lines, End(lines[t[1]], t[3])) = 2}

\* the line made of a and b, end ea of a being end eb of b
Join(a, ea, b, eb) ==
    IF ea = 2
    THEN a \o Tail(IF eb = 1 THEN b ELSE Reverse(b))
    ELSE (IF eb = 2 THEN b ELSE Reverse(b)) \o Tail(a)

RemoveAt(q, i) == SubSeq(q, 1, i - 1) \o SubSeq(q, i + 1, Len(q))

\* shapely.ops.linemerge: lines are sewn together end to end at the points
\* where exactly two line ends meet, until none is left; the result holds
\* the maximal chains.  The direction of a chain is not part of the result
\* the callers rely on.
\* the lines after sewing joint t
Sewn(lines, t) ==
    [RemoveAt(lines, t[2]) EXCEPT
        ![t[1]] = Join(lines[t[1]], t[3], lines[t[2]], t[4])]

RECURSIVE LineMerge(_)
LineMerge(lines) ==
    IF Joints(lines) = {} THEN lines
    ELSE LineMerge(Sewn(lines, CHOOSE t \in Joints(lines) : TRUE))

\* the first line of a list
FirstGeom(geoms) == geoms[1]

\* max(geoms, key=lambda x: x.length): the first line of maximal length;
\* length is that of the geometry as fetched, in geographic coordinates
MaxByLength(geoms) ==
    geoms[CHOOSE k \in 1..Len(geoms) :
            /\ \A j \in 1..Len(geoms) :
                   LineLength(geoms[j]) <= LineLength(geoms[k])
            /\ \A j \in 1..(k - 1) :
                   LineLength(geoms[j]) < LineLength(geoms[k])]

\* the chains linemerge leaves for the street
Chains(street, roads) == LineMerge(LineStrings(FilteredRoad(street, roads)))

\* the orders in which road_line.geoms can list the chains
GeomOrders(street, roads) == Orders(1..Len(Chains(street, roads)))

\* the rest of fetch_from_osm once the street's features are selected;
\* order: the order of the chains in the merged geometry
FetchFiltered(s, filtered, linestrings, merged, order) ==
    IF Len(filtered) = 0 THEN [st |-> s, exc |-> "ValueError"]
    ELSE IF Len(linestrings) = 0
    THEN [st |-> [s EXCEPT !.osm_road_data = Some(filtered)],
          exc |-> "ValueError"]
    ELSE [st |-> [s EXCEPT
                    !.osm_road_data = Some(filtered),
                    !.road_line =
                        Some(IF Len(merged) > 1
                             THEN MaxByLength([k \in 1..Len(merged) |->
                                                  merged[order[k]]])
                             ELSE merged[1])],
          exc |-> NoExc]

\* roads: the features ox.features_from_place returns
fetch_from_osm(s, roads, order) ==
    FetchFiltered(s, FilteredRoad(s.street_name, roads),
                  LineStrings(FilteredRoad(s.street_name, roads)),
                  Chains(s.street_name, roads), order)

create_road_line(s, roads, order) ==
    IF s.from_osm THEN fetch_from_osm(s, roads, order)
    ELSE IF LineStringRaises(s.road_coords)
    THEN [st |-> s, exc |-> "ShapelyError"]
    ELSE [st |-> [s EXCEPT !.road_line = Some(s.road_coords),
                           !.road_gdf = Some(s.road_coords)],
          exc |-> NoExc]

\* a call that returned without touching the instance
Returned(s) == [st |-> s, exc |-> NoExc]

\* self.road_gdf, created from road_line if it is still None
EnsureRoadGdf(s) ==
    IF s.road_gdf.some THEN s
    ELSE [s EXCEPT !.road_gdf = Some(s.road_line.val)]

\* the projection of self.road_gdf, stored in both fields
Projected(s) ==
    [s EXCEPT !.road_projected_gdf = Some(LineToUTM(s.road_gdf.val)),
              !.road_projected = Some(LineToUTM(s.road_gdf.val))]

\* project_road after its lazy call c of create_road_line
ProjectAfter(c) ==
    IF c.exc # NoExc THEN c
    ELSE [st |-> Projected(EnsureRoadGdf(c.st)), exc |-> NoExc]

\* project_road without the check of self.road_line
project_roadEager(s, roads, order) ==
    ProjectAfter(create_road_line(s, roads, order))

project_road(s, roads, order) ==
    ProjectAfter(IF s.road_line.some THEN Returned(s)
                 ELSE create_road_line(s, roads, order))

\* the distances d of range(0, int(self.road_projected.length),
\* self.distance_interval)
SampleRange(projected, interval) ==
    Range(IntOf(LineLength(projected)), interval)

\* the points interpolated at the distances ds, back in geographic
\* coordinates
SamplePoints(projected, ds) ==
    LineToGeo([k \in 1..Len(ds) |-> Interpolate(projected, ds[k])])

\* generate_sample_points after its lazy call p of project_road
GenerateAfter(p) ==
    IF p.exc # NoExc THEN [st |-> p.st, exc |-> p.exc, dists |-> None]
    ELSE IF p.st.distance_interval = 0
    THEN [st |-> p.st, exc |-> "ValueError", dists |-> None]
    ELSE [st |-> [p.st EXCEPT !.sample_points =
                    Some(SamplePoints(p.st.road_projected.val,
                            SampleRange(p.st.road_projected.val,
                                        p.st.distance_interval)))],
          exc |-> NoExc,
          dists |-> Some(SampleRange(p.st.road_projected.val,
                                     p.st.distance_interval))]

generate_sample_points(s, roads, order) ==
    GenerateAfter(IF s.road_projected.some THEN Returned(s)
                  ELSE project_road(s, roads, order))

\* get_road_length after its lazy call p of project_road
LengthAfter(p) ==
    IF p.exc # NoExc THEN [st |-> p.st, exc |-> p.exc, ret |-> 0]
    ELSE [st |-> p.st, exc |-> NoExc,
          ret |-> LineLength(p.st.road_projected.val)]

get_road_length(s, roads, order) ==
    LengthAfter(IF s.road_projected.some THEN Returned(s)
                ELSE project_road(s, roads, order))

\* get_summary after its lazy call g of generate_sample_points and, when
\* that returned, its call l of get_road_length
SummaryAfter(g, l) ==
    IF g.exc # NoExc THEN [st |-> g.st, exc |-> g.exc, dists |-> g.dists]
    ELSE [st |-> l.st, exc |-> l.exc, dists |-> g.dists]

\* get_summary once the sample points are there
SummaryOf(g, roads, order) ==
    SummaryAfter(g, get_road_length(g.st, roads, order))

get_summary(s, roads, order) ==
    SummaryOf(IF s.sample_points.some
              THEN [st |-> s, exc |-> NoExc, dists |-> None]
              ELSE generate_sample_points(s, roads, order),
              roads, order)

----------------------------------------------------------------------------
(* pandas helpers *)

\* Series.map(dict): a value that is not a key of the dict becomes NaN
MapCode(dict, code) == IF code \in DOMAIN dict THEN dict[code] ELSE NaN

RowsWithLabel(rows, l) == SelectSeq(rows, LAMBDA r : r.label = l)

RECURSIVE LocFrom(_, _, _)
LocFrom(rows, labels, i) ==
    IF i > Len(labels) THEN <<>>
    ELSE RowsWithLabel(rows, labels[i]) \o LocFrom(rows, labels, i + 1)

\* DataFrame.loc[labels]: for each requested label, in the order requested,
\* every row that carries the label
Loc(rows, labels) == LocFrom(rows, labels, 1)

RECURSIVE SumFrom(_, _)
SumFrom(rows, i) ==
    IF i > Len(rows) THEN 0
    ELSE rows[i].number_of_casualties + SumFrom(rows, i + 1)

\* Series.sum() of number_of_casualties
SumCasualties(rows) == SumFrom(rows, 1)

\* the columns of dtype object, which can hold NaN; hour is astype(int)
ObjectCols == {"severity_name", "day_name", "weather_name", "light_name"}

\* Series.value_counts() of a column: NaN is dropped
ValueCounts(rows, col) ==
    LET present == {v \in {rows[i][col] : i \in 1..Len(rows)} :
                        ~(col \in ObjectCols /\ v = NaN)}
    IN  [v \in present |-> Cardinality({i \in 1..Len(rows) : rows[i][col] = v})]

\* the most frequent value met first in row order (value_counts().idxmax())
ModeFirst(rows, col) ==
    LET vc == ValueCounts(rows, col)
        top(i) == \A w \in DOMAIN vc : vc[w] <= vc[rows[i][col]]
    IN  rows[CHOOSE i \in 1..Len(rows) :
                top(i) /\ \A j \in 1..(i - 1) : ~top(j)][col]

\* Series.mode()[0]: the smallest of the most frequent values
Mode0(rows, col) ==
    LET vc == ValueCounts(rows, col)
    IN  CHOOSE v \in DOMAIN vc :
            /\ \A w \in DOMAIN vc : vc[w] <= vc[v]
            /\ \A w \in DOMAIN vc : vc[w] = vc[v] => v <= w

\* a quotient a / b, kept exact
Ratio(a, b) == [num |-> a, den |-> b]
Zero == Ratio(0, 1)

----------------------------------------------------------------------------
(* The time field: a string, modelled as its characters.                   *)

Digits == <<"0", "1", "2", "3", "4", "5", "6", "7", "8", "9">>
IsDigit(c) == \E d \in 1..10 : Digits[d] = c
DigitVal(c) == (CHOOSE d \in 1..10 : Digits[d] = c) - 1

\* str.split(':')[0]
RECURSIVE BeforeColon(_, _)
BeforeColon(chars, i) ==
    IF i > Len(chars) \/ chars[i] = ":" THEN <<>>
    ELSE <<chars[i]>> \o BeforeColon(chars, i + 1)

RECURSIVE DecimalValue(_, _)
DecimalValue(chars, n) ==
    IF n = 0 THEN 0
    ELSE 10 * DecimalValue(chars, n - 1) + DigitVal(chars[n])

\* astype(int) accepts the leading field iff it is a decimal numeral
HourParses(time) ==
    LET f == BeforeColon(time, 1)
    IN  Len(f) > 0 /\ \A i \in 1..Len(f) : IsDigit(f[i])

HourOf(time) == DecimalValue(BeforeColon(time, 1), Len(BeforeColon(time, 1)))

----------------------------------------------------------------------------
(* CollisionAnalyzer *)

SEVERITY_MAP == (1 :> "Fatal") @@ (2 :> "Serious") @@ (3 :> "Slight")

DAY_MAP ==
    (1 :> "Sunday") @@ (2 :> "Monday") @@ (3 :> "Tuesday") @@
    (4 :> "Wednesday") @@ (5 :> "Thursday") @@ (6 :> "Friday") @@
    (7 :> "Saturday")

WEATHER_MAP ==
    (1 :> "Fine no high winds") @@ (2 :> "Raining no high winds") @@
    (3 :> "Snowing no high winds") @@ (4 :> "Fine + high winds") @@
    (5 :> "Raining + high winds") @@ (6 :> "Snowing + high winds") @@
    (7 :> "Fog or mist") @@ (8 :> "Other") @@ (9 :> "Unknown") @@
    (-1 :> "Data missing")

LIGHT_MAP ==
    (1 :> "Daylight") @@ (4 :> "Darkness - lights lit") @@
    (5 :> "Darkness - lights unlit") @@ (6 :> "Darkness - no lighting") @@
    (7 :> "Darkness - lighting unknown") @@ (-1 :> "Data missing")

\* a data frame: the columns added to the source columns, and the rows
NoFrame == [some |-> FALSE, cols |-> {}, rows |-> <<>>]
Frame(cols, rows) == [some |-> TRUE, cols |-> cols, rows |-> rows]

AnalyzerNone ==
    [constructed |-> FALSE, collisions_gdf |-> <<>>, sample_points |-> <<>>,
     road_line |-> <<>>, radius |-> 0, nearby_collisions |-> NoFrame,
     statistics |-> <<>>]

AnalyzerNew(collisions, points, line, radius) ==
    [constructed |-> TRUE, collisions_gdf |-> collisions,
     sample_points |-> points, road_line |-> line, radius |-> radius,
     nearby_collisions |-> NoFrame, statistics |-> <<>>]

\* self.sample_points.estimate_utm_crs(): a frame without points has no
\* bounds to pick a zone from, and the call either raises or returns some
\* zone; utm_ok is its outcome, TRUE for every frame that has points.
UtmEstimated(geoms, utm_ok) == Len(geoms) > 0 \/ utm_ok

\* the outcomes of estimate_utm_crs() a call on these geometries can meet
UtmOutcomes(geoms) == IF Len(geoms) > 0 THEN {TRUE} ELSE BOOLEAN

\* distances <= self.radius, both sides squared, in planar units
WithinRadius(p, q, radius) ==
    DistSq(ToUTM(p), ToUTM(q)) <= (radius * Scale) * (radius * Scale)

\* the index labels collected by the loop over the sample points
NearbyIndices(a) ==
    {a.collisions_gdf[i].label : i \in
        {i \in 1..Len(a.collisions_gdf) :
            \E k \in 1..Len(a.sample_points) :
                WithinRadius(a.collisions_gdf[i].geometry,
                             a.sample_points[k], a.radius)}}

AddColumn(frame, col, values) ==
    Frame(frame.cols \cup {col},
          [i \in 1..Len(frame.rows) |-> (col :> values[i]) @@ frame.rows[i]])

MappedColumn(frame, src, dict) ==
    [i \in 1..Len(frame.rows) |-> MapCode(dict, frame.rows[i][src])]

_add_mapped_columns(a) ==
    LET f0 == a.nearby_collisions
        f1 == AddColumn(f0, "severity_name",
                        MappedColumn(f0, "collision_severity", SEVERITY_MAP))
        f2 == AddColumn(f1, "day_name",
                        MappedColumn(f1, "day_of_week", DAY_MAP))
        f3 == AddColumn(f2, "weather_name",
                        MappedColumn(f2, "weather_conditions", WEATHER_MAP))
        f4 == AddColumn(f3, "light_name",
                        MappedColumn(f3, "light_conditions", LIGHT_MAP))
    IN  IF \E i \in 1..Len(f4.rows) : ~HourParses(f4.rows[i].time)
        THEN [st |-> [a EXCEPT !.nearby_collisions = f4], exc |-> "ValueError"]
        ELSE [st |-> [a EXCEPT !.nearby_collisions =
                        AddColumn(f4, "hour",
                            [i \in 1..Len(f4.rows) |-> HourOf(f4.rows[i].time)])],
              exc |-> NoExc]

RECURSIVE RowsPerPointFrom(_, _)
RowsPerPointFrom(a, k) ==
    IF k > Len(a.sample_points) THEN <<>>
    ELSE SelectSeq(a.collisions_gdf,
                   LAMBDA r : WithinRadius(r.geometry, a.sample_points[k],
                                           a.radius))
         \o RowsPerPointFrom(a, k + 1)

\* collecting the hits of each sample point in a list instead of a set
NearbyRowsPerPoint(a, order) == RowsPerPointFrom(a, 1)

\* the rows selected by self.collisions_gdf.loc[list(nearby_indices)]
NearbyRows(a, order) == Loc(a.collisions_gdf, order)

\* annotating the selected rows in the source frame as well
find_nearby_collisionsInPlace(a, utm_ok, order) ==
    IF ~UtmEstimated(a.sample_points, utm_ok)
    THEN [st |-> a, exc |-> "RuntimeError"]
    ELSE LET f0 == Frame({}, NearbyRows(a, order))
             f1 == AddColumn(f0, "distance_to_road_m",
                     [i \in 1..Len(f0.rows) |->
                         LineDistSq(ToUTM(f0.rows[i].geometry),
                                    LineToUTM(a.road_line))])
             r  == _add_mapped_columns([a EXCEPT !.nearby_collisions = f1])
         IN  [st |-> [r.st EXCEPT
                        !.collisions_gdf = r.st.nearby_collisions.rows],
              exc |-> r.exc]

\* order: the order in which list(nearby_indices) yields the labels
find_nearby_collisions(a, utm_ok, order) ==
    IF ~UtmEstimated(a.sample_points, utm_ok)
    THEN [st |-> a, exc |-> "RuntimeError"]
    ELSE LET road_proj == LineToUTM(a.road_line)
             f0 == Frame({}, NearbyRows(a, order))
             f1 == AddColumn(f0, "distance_to_road_m",
                     [i \in 1..Len(f0.rows) |->
                         LineDistSq(ToUTM(f0.rows[i].geometry), road_proj)])
         IN  _add_mapped_columns([a EXCEPT !.nearby_collisions = f1])

\* buckets that leave hour 15 out
time_rangesGap ==
    <<[name |-> "Night (00-06)", start |-> 0, end |-> 6],
      [name |-> "Morning Rush (07-09)", start |-> 7, end |-> 9],
      [name |-> "Midday (10-15)", start |-> 10, end |-> 14],
      [name |-> "Evening Rush (16-18)", start |-> 16, end |-> 18],
      [name |-> "Evening (19-23)", start |-> 19, end |-> 23]>>

time_ranges ==
    <<[name |-> "Night (00-06)", start |-> 0, end |-> 6],
      [name |-> "Morning Rush (07-09)", start |-> 7, end |-> 9],
      [name |-> "Midday (10-15)", start |-> 10, end |-> 15],
      [name |-> "Evening Rush (16-18)", start |-> 16, end |-> 18],
      [name |-> "Evening (19-23)", start |-> 19, end |-> 23]>>

\* {category: {'count': count, 'percentage': (count / total) * 100}}
Breakdown(rows, col) ==
    LET vc == ValueCounts(rows, col)
    IN  [v \in DOMAIN vc |->
            [count |-> vc[v], percentage |-> Ratio(vc[v] * 100, Len(rows))]]

TimeDistribution(rows) ==
    [n \in {time_ranges[t].name : t \in 1..Len(time_ranges)} |->
        LET tr == CHOOSE r \in {time_ranges[t] : t \in 1..Len(time_ranges)} :
                      r.name = n
            count == Cardinality({i \in 1..Len(rows) :
                        rows[i].hour >= tr.start /\ rows[i].hour <= tr.end})
        IN  [count |-> count,
             percentage |-> IF Len(rows) > 0
                            THEN Ratio(count * 100, Len(rows)) ELSE Zero]]

Summary(rows, n_points) ==
    [total_collisions |-> Len(rows),
     total_casualties |-> SumCasualties(rows),
     avg_casualties_per_collision |->
        IF Len(rows) > 0 THEN Ratio(SumCasualties(rows), Len(rows)) ELSE Zero,
     collisions_per_sample_point |-> Ratio(Len(rows), n_points)]

TimeStats(rows) ==
    [most_common_hour |->
        IF Len(rows) > 0 THEN Some(Mode0(rows, "hour")) ELSE None,
     hour_counts |-> ValueCounts(rows, "hour"),
     time_distribution |-> TimeDistribution(rows)]

\* self.statistics[key] = value
SetStat(a, key, value) ==
    [a EXCEPT !.statistics = (key :> value) @@ a.statistics]

calculate_statistics(a, utm_ok, order) ==
    LET f  == IF a.nearby_collisions.some THEN [st |-> a, exc |-> NoExc]
              ELSE find_nearby_collisions(a, utm_ok, order)
        a1 == f.st
        rows == a1.nearby_collisions.rows
        cols == a1.nearby_collisions.cols
        a2 == SetStat(a1, "summary", Summary(rows, Len(a1.sample_points)))
        a3 == SetStat(a2, "severity", Breakdown(rows, "severity_name"))
        a4 == SetStat(a3, "time", TimeStats(rows))
        a5 == SetStat(a4, "day_of_week", Breakdown(rows, "day_name"))
        a6 == SetStat(a5, "weather", Breakdown(rows, "weather_name"))
        a7 == SetStat(a6, "light", Breakdown(rows, "light_name"))
    IN  IF f.exc # NoExc THEN f
        ELSE IF Len(a1.sample_points) = 0
        THEN [st |-> a1, exc |-> "ZeroDivisionError"]
        ELSE IF "hour" \notin cols
        THEN [st |-> a3, exc |-> "KeyError"]
        ELSE [st |-> a7, exc |-> NoExc]

StatKeys == {"summary", "severity", "time", "day_of_week", "weather", "light"}

print_statistics(a, utm_ok, order) ==
    LET c == IF DOMAIN a.statistics # {} THEN [st |-> a, exc |-> NoExc]
             ELSE calculate_statistics(a, utm_ok, order)
    IN  IF c.exc # NoExc THEN c
        ELSE IF ~(StatKeys \subseteq DOMAIN c.st.statistics)
        THEN [st |-> c.st, exc |-> "KeyError"]
        ELSE c

export_cols ==
    {"distance_to_road_m", "severity_name", "weather_name", "light_name",
     "day_name", "hour"}

get_export_data(a, utm_ok, order) ==
    LET f == IF a.nearby_collisions.some THEN [st |-> a, exc |-> NoExc]
             ELSE find_nearby_collisions(a, utm_ok, order)
    IN  IF f.exc # NoExc THEN f
        ELSE IF ~(export_cols \subseteq f.st.nearby_collisions.cols)
        THEN [st |-> f.st, exc |-> "KeyError"]
        ELSE f

----------------------------------------------------------------------------
(* Inputs *)

Origin == [x |-> 0, y |-> 0]

GeoGrid == {[x |-> i, y |-> j] : i \in 0..MaxX, j \in 0..MaxY}

AxisParallel(q) ==
    \A i \in 1..(Len(q) - 1) : q[i].x = q[i + 1].x \/ q[i].y = q[i + 1].y

\* every road_coords list of 1..MaxVerts grid vertices that starts at the
\* origin
Roads ==
    UNION {{q \in [1..n -> GeoGrid] : AxisParallel(q) /\ q[1] = Origin} :
            n \in 1..MaxVerts}

NoRepeat(q) == \A i \in 1..(Len(q) - 1) : q[i] # q[i + 1]

\* roads from the origin along the x axis: straight, with a further leg
\* across, and doubling back
MatchRoads ==
    {<<Origin, [x |-> MaxX, y |-> 0]>>,
     <<Origin, [x |-> MaxX, y |-> 0], [x |-> MaxX, y |-> MaxY]>>,
     <<Origin, [x |-> MaxX, y |-> 0], Origin>>}

Intervals == (-1)..MaxInterval

Time1730 == <<"1", "7", ":", "3", "0">>
Time0705 == <<"0", "7", ":", "0", "5">>
TimeBad  == <<"a", "b", ":", "c", "d">>

\* the coded fields of a record
Profile(sev, day, weather, light, time, casualties) ==
    [collision_severity |-> sev, day_of_week |-> day,
     weather_conditions |-> weather, light_conditions |-> light,
     time |-> time, number_of_casualties |-> casualties]

PlainProfile == Profile(3, 2, 1, 1, Time1730, 1)

Profiles ==
    {PlainProfile,
     Profile(1, 7, -1, -1, Time0705, 2),
     Profile(9, 2, 1, 1, Time1730, 1),
     Profile(3, 0, 1, 2, Time0705, 0),
     Profile(2, 2, 10, 4, Time1730, 1),
     Profile(3, 2, 1, 1, TimeBad, 1)}

Row(label, id, pt, profile) ==
    [label |-> label, collision_index |-> id, geometry |-> pt] @@ profile

\* positions of collisions: on the road, beside it and away from it
CollPts ==
    {Origin, [x |-> 1, y |-> 1], [x |-> MaxX, y |-> 0],
     [x |-> Radius * Scale, y |-> Radius * Scale],
     [x |-> MaxX + Radius * Scale + 1, y |-> Radius * Scale]}

\* index labels of n rows, up to renaming: a label is either one already
\* used by an earlier row or the next unused one
LabelSeqs(n) ==
    {l \in [1..n -> 0..(n - 1)] :
        \A i \in 1..n : \A v \in 0..(l[i] - 1) : \E j \in 1..(i - 1) : l[j] = v}

\* record sets for the matching claims: any positions, any labels
MatchInputs ==
    UNION {{[i \in 1..n |-> Row(l[i], i, p[i], PlainProfile)] :
                l \in LabelSeqs(n), p \in [1..n -> CollPts]} : n \in 0..MaxRows}

NearPt == Origin
FarPt == [x |-> MaxX + Radius * Scale + 1, y |-> Radius * Scale]

\* record sets for the statistics claims: any coded fields
StatsInputs ==
    UNION {{[i \in 1..n |-> Row(i - 1, i, p[i], f[i])] :
                p \in [1..n -> {NearPt, FarPt}], f \in [1..n -> Profiles]} :
            n \in 0..MaxRows}

\* a road of at least a metre and one shorter than a metre
StatsRoads ==
    {<<Origin, [x |-> MaxX, y |-> 0]>>, <<Origin, [x |-> 1, y |-> 0]>>}

\* the time field "hh:00"
TimeOfHour(h) ==
    <<Digits[(h \div 10) + 1], Digits[(h % 10) + 1], ":", "0", "0">>

\* the hours of a day, and one value past them
Hours == 0..24

\* hours on either side of a bucket boundary, and the value past the day
EdgeHours == {6, 7, 15, 16, 24}

\* record sets for the time claims, all records on the road: the first
\* record at any hour, the others at the bucket boundaries and listed by
\* hour; the order of the matched rows is left to find_nearby_collisions
TimeInputs ==
    UNION {{[i \in 1..n |->
                Row(i - 1, i, NearPt,
                    Profile(3, 2, 1, 1, TimeOfHour(h[i]), 1))] :
                h \in {g \in [1..n -> Hours] :
                          /\ \A i \in 2..n : g[i] \in EdgeHours
                          /\ \A i \in 2..(n - 1) : g[i] <= g[i + 1]}} :
            n \in 0..MaxRows}

\* roads a sampler is given after its construction: along one axis, along
\* the other, and around a corner
NewRoads ==
    {<<Origin, [x |-> MaxX, y |-> 0]>>,
     <<Origin, [x |-> 0, y |-> MaxY]>>,
     <<Origin, [x |-> 1, y |-> 0], [x |-> 1, y |-> MaxY]>>}

\* the street asked for, and another street of the area
StreetName == "Askew Road"
OtherName == "Askew Crescent"

Pt(x, y) == [x |-> x, y |-> y]

\* geometries the area can hold: two stretches of a street that share an end,
\* a stretch further on drawn the other way, a parallel stretch, a side
\* street ending between the first two, a two-part geometry closing the
\* far end, and a named point
OsmPool ==
    <<Feature("", "LineString", <<<<Pt(0, 0), Pt(1, 0)>>>>),
      Feature("", "LineString", <<<<Pt(1, 0), Pt(3, 0)>>>>),
      Feature("", "LineString", <<<<Pt(4, 0), Pt(3, 0)>>>>),
      Feature("", "LineString", <<<<Pt(3, 1), Pt(0, 1)>>>>),
      Feature("", "LineString", <<<<Pt(1, 1), Pt(1, 0)>>>>),
      Feature("", "MultiLineString",
              <<<<Pt(3, 1), Pt(4, 1)>>, <<Pt(4, 1), Pt(4, 0)>>>>),
      Feature("", "Point", <<>>)>>

\* the features ox.features_from_place can return: at least one and at most
\* MaxSegs of the pool, each named after the street or after the other one
OsmInputs ==
    {SelectSeq([i \in 1..Len(OsmPool) |->
                    Feature(n[i], OsmPool[i].geom_type, OsmPool[i].geoms)],
               LAMBDA f : f.name # "") :
        n \in {m \in [1..Len(OsmPool) -> {"", StreetName, OtherName}] :
                  Cardinality({i \in 1..Len(OsmPool) : m[i] # ""})
                      \in 1..MaxSegs}}

----------------------------------------------------------------------------
(* State *)

SamplerState ==
    [road_coords |-> road_coords, distance_interval |-> distance_interval,
     road_line |-> road_line, road_gdf |-> road_gdf,
     road_projected |-> road_projected,
     road_projected_gdf |-> road_projected_gdf,
     sample_points |-> sample_points, from_osm |-> from_osm,
     street_name |-> street_name, osm_road_data |-> osm_road_data]

SetSampler(st) ==
    /\ road_coords' = st.road_coords
    /\ distance_interval' = st.distance_interval
    /\ road_line' = st.road_line
    /\ road_gdf' = st.road_gdf
    /\ road_projected' = st.road_projected
    /\ road_projected_gdf' = st.road_projected_gdf
    /\ sample_points' = st.sample_points
    /\ from_osm' = st.from_osm
    /\ street_name' = st.street_name
    /\ osm_road_data' = st.osm_road_data

\* RoadSampler(road_coords=coords, distance_interval=interval), and the
\* arguments the analyzer will be given
InitWith(roads, intervals, inputs, radii) ==
    /\ road_coords \in roads
    /\ distance_interval \in intervals
    /\ road_line = None
    /\ road_gdf = None
    /\ road_projected = None
    /\ road_projected_gdf = None
    /\ sample_points = None
    /\ from_osm = FALSE
    /\ street_name = None
    /\ osm_road_data = None
    /\ osm_roads = <<>>
    /\ sample_dists = <<>>
    /\ input_collisions \in inputs
    /\ input_radius \in radii
    /\ analyzer = AnalyzerNone
    /\ last_exc = NoRaise

Init ==
    InitWith(Roads, Intervals, {<<Row(0, 1, Origin, PlainProfile)>>}, {Radius})

InitMatch == InitWith(MatchRoads, 1..MaxInterval, MatchInputs, {Radius})

InitStats == InitWith(StatsRoads, {1}, StatsInputs, {Radius})

\* RoadSampler(area_name=..., street_name=StreetName, distance_interval=1)
InitOSM ==
    /\ road_coords = None
    /\ distance_interval = 1
    /\ road_line = None
    /\ road_gdf = None
    /\ road_projected = None
    /\ road_projected_gdf = None
    /\ sample_points = None
    /\ from_osm = TRUE
    /\ street_name = Some(StreetName)
    /\ osm_road_data = None
    /\ osm_roads \in OsmInputs
    /\ sample_dists = <<>>
    /\ input_collisions = <<Row(0, 1, Origin, PlainProfile)>>
    /\ input_radius = Radius
    /\ analyzer = AnalyzerNone
    /\ last_exc = NoRaise

InitReassign ==
    InitWith(NewRoads, 1..MaxInterval, {<<Row(0, 1, Origin, PlainProfile)>>},
             {Radius})

InitTime ==
    InitWith({<<Origin, [x |-> MaxX, y |-> 0]>>}, {1}, TimeInputs, {Radius})

----------------------------------------------------------------------------
(* RoadSampler calls *)

CreateRoadLine ==
    \E order \in GeomOrders(street_name, osm_roads) :
        LET r == create_road_line(SamplerState, osm_roads, order)
        IN  /\ SetSampler(r.st)
            /\ last_exc' = Raised("create_road_line", r.exc)
            /\ UNCHANGED <<sample_dists, inputVars, analyzer>>

ProjectRoad ==
    \E order \in GeomOrders(street_name, osm_roads) :
        LET r == project_road(SamplerState, osm_roads, order)
        IN  /\ SetSampler(r.st)
            /\ last_exc' = Raised("project_road", r.exc)
            /\ UNCHANGED <<sample_dists, inputVars, analyzer>>

GenerateSamplePoints ==
    \E order \in GeomOrders(street_name, osm_roads) :
        LET r == generate_sample_points(SamplerState, osm_roads, order)
        IN  /\ SetSampler(r.st)
            /\ sample_dists' = IF r.dists.some THEN r.dists.val ELSE sample_dists
            /\ last_exc' = Raised("generate_sample_points", r.exc)
            /\ UNCHANGED <<inputVars, analyzer>>

GetRoadLength ==
    \E order \in GeomOrders(street_name, osm_roads) :
        LET r == get_road_length(SamplerState, osm_roads, order)
        IN  /\ SetSampler(r.st)
            /\ last_exc' = Raised("get_road_length", r.exc)
            /\ UNCHANGED <<sample_dists, inputVars, analyzer>>

GetSummary ==
    \E order \in GeomOrders(street_name, osm_roads) :
        LET r == get_summary(SamplerState, osm_roads, order)
        IN  /\ SetSampler(r.st)
            /\ sample_dists' = IF r.dists.some THEN r.dists.val ELSE sample_dists
            /\ last_exc' = Raised("get_summary", r.exc)
            /\ UNCHANGED <<inputVars, analyzer>>

\* sampler.road_coords = coords, an assignment to the public attribute
SetRoadCoords ==
    /\ \E coords \in NewRoads : road_coords' = coords
    /\ UNCHANGED <<distance_interval, road_line, road_gdf, road_projected,
                   road_projected_gdf, sample_points, from_osm, street_name,
                   osm_road_data, sample_dists, inputVars, analyzer, last_exc>>

----------------------------------------------------------------------------
(* CollisionAnalyzer calls *)

\* CollisionAnalyzer(collisions, sampler.sample_points, sampler.road_line,
\* radius), once the sampler has returned its sample points
AnalyzerInit ==
    /\ ~analyzer.constructed
    /\ sample_points.some
    /\ road_line.some
    /\ analyzer' = AnalyzerNew(input_collisions, sample_points.val,
                               road_line.val, input_radius)
    /\ last_exc' = NoRaise
    /\ UNCHANGED <<samplerVars, inputVars>>

\* a call of an analyzer method that returned or raised r
AnalyzerReturn(r, name) ==
    /\ analyzer' = r.st
    /\ last_exc' = Raised(name, r.exc)
    /\ UNCHANGED <<samplerVars, inputVars>>

FindNearbyCollisions ==
    /\ analyzer.constructed
    /\ \E utm_ok \in UtmOutcomes(analyzer.sample_points),
          order \in Orders(NearbyIndices(analyzer)) :
            AnalyzerReturn(find_nearby_collisions(analyzer, utm_ok, order),
                           "find_nearby_collisions")

CalculateStatistics ==
    /\ analyzer.constructed
    /\ \E utm_ok \in UtmOutcomes(analyzer.sample_points),
          order \in Orders(NearbyIndices(analyzer)) :
            AnalyzerReturn(calculate_statistics(analyzer, utm_ok, order),
                           "calculate_statistics")

PrintStatistics ==
    /\ analyzer.constructed
    /\ \E utm_ok \in UtmOutcomes(analyzer.sample_points),
          order \in Orders(NearbyIndices(analyzer)) :
            AnalyzerReturn(print_statistics(analyzer, utm_ok, order),
                           "print_statistics")

GetExportData ==
    /\ analyzer.constructed
    /\ \E utm_ok \in UtmOutcomes(analyzer.sample_points),
          order \in Orders(NearbyIndices(analyzer)) :
            AnalyzerReturn(get_export_data(analyzer, utm_ok, order),
                           "get_export_data")

----------------------------------------------------------------------------

Next ==
    \/ CreateRoadLine
    \/ ProjectRoad
    \/ GenerateSamplePoints
    \/ GetRoadLength
    \/ GetSummary
    \/ AnalyzerInit
    \/ FindNearbyCollisions
    \/ CalculateStatistics
    \/ PrintStatistics
    \/ GetExportData

Spec == Init /\ [][Next]_vars

SpecMatch == InitMatch /\ [][Next]_vars

SpecStats == InitStats /\ [][Next]_vars

SpecTime == InitTime /\ [][Next]_vars

SpecOSM == InitOSM /\ [][Next]_vars

\* the calls, and assignments to road_coords between them
NextReassign ==
    \/ Next
    \/ SetRoadCoords

SpecReassign == InitReassign /\ [][NextReassign]_vars

----------------------------------------------------------------------------
(* Properties of RoadSampler.generate_sample_points *)

Sampled == sample_points.some
ProjectedLength == LineLength(road_projected.val)
NumPoints == Len(sample_points.val)

\* d is a whole number of metres strictly below floor(length)
BelowFloor(d) == (d + 1) * Scale <= ProjectedLength

\* C1: with a positive interval I, the emitted distances are, in increasing
\* order, exactly the multiples of I below floor(L), each with its point on
\* the line; a first distance is 0 and no distance exceeds L.
C1_SampleDistances ==
    (Sampled /\ distance_interval > 0) =>
        /\ Len(sample_dists) = NumPoints
        /\ {sample_dists[k] : k \in 1..NumPoints} =
               {d \in 0..ProjectedLength :
                    d % distance_interval = 0 /\ BelowFloor(d)}
        /\ \A k \in 1..(NumPoints - 1) : sample_dists[k] < sample_dists[k + 1]
        /\ \A k \in 1..NumPoints :
               /\ sample_dists[k] * Scale <= ProjectedLength
               /\ sample_points.val[k] =
                      ToGeo(Interpolate(road_projected.val, sample_dists[k]))
        /\ NumPoints > 0 => sample_dists[1] = 0

\* a road whose length is not a whole number of metres, sampled more than once
C1_Witness ==
    /\ Sampled
    /\ distance_interval > 0
    /\ ProjectedLength % Scale # 0
    /\ NumPoints >= 2

\* C2 as stated: the number of points is floor(floor(L)/I) + 1
C2_CountAsStated ==
    (Sampled /\ distance_interval > 0 /\ Len(road_coords) >= 2) =>
        NumPoints = ((ProjectedLength \div Scale) \div distance_interval) + 1

\* C2, amended: the number of points n is ceil(floor(L)/I), the least n with
\* n*I >= floor(L); it is floor(floor(L)/I) + 1 only when floor(L) is not a
\* multiple of I, and 0 when floor(L) = 0.
C2_CountCeil ==
    (Sampled /\ distance_interval > 0 /\ Len(road_coords) >= 2) =>
        LET F == ProjectedLength \div Scale
        IN  /\ NumPoints * distance_interval >= F
            /\ NumPoints > 0 => (NumPoints - 1) * distance_interval < F
            /\ (F % distance_interval # 0) =>
                   NumPoints = (F \div distance_interval) + 1

\* floor(L) is a positive exact multiple of the interval
C2_Witness ==
    /\ Sampled
    /\ distance_interval > 1
    /\ Len(road_coords) >= 2
    /\ ProjectedLength \div Scale > 0
    /\ (ProjectedLength \div Scale) % distance_interval = 0

ValidGeometry == Len(road_coords) >= 2 /\ NoRepeat(road_coords)

\* C6: sampling with a non-positive interval fails and never returns a
\* sample point set, empty or not (stated for the roads that are themselves
\* valid, so that the interval alone decides)
C6_NonPositiveIntervalRejected ==
    (distance_interval <= 0 /\ ValidGeometry) => ~Sampled

\* C7: a road with fewer than 2 vertices or with two identical consecutive
\* vertices is rejected before any sample point is produced
C7_InvalidGeometryRejected ==
    ~ValidGeometry => (~Sampled \/ NumPoints = 0)

----------------------------------------------------------------------------
(* Properties of CollisionAnalyzer.find_nearby_collisions *)

Matched == analyzer.nearby_collisions.some
MatchedRows == analyzer.nearby_collisions.rows
MatchedCols == analyzer.nearby_collisions.cols
MatchedIds == {MatchedRows[i].collision_index : i \in 1..Len(MatchedRows)}

\* the sample points within radius of a position
PointsWithin(pt) ==
    {k \in 1..Len(analyzer.sample_points) :
        DistSq(ToUTM(pt), ToUTM(analyzer.sample_points[k]))
            <= (analyzer.radius * Scale) * (analyzer.radius * Scale)}

\* C3: a collision is in the result if and only if it is within radius
\* (boundary included) of at least one sample point
C3_MatchedIffWithinRadius ==
    Matched =>
        \A i \in 1..Len(analyzer.collisions_gdf) :
            (analyzer.collisions_gdf[i].collision_index \in MatchedIds)
                <=> (PointsWithin(analyzer.collisions_gdf[i].geometry) # {})

\* C4: no collision id occurs twice in the result
C4_NoDuplicateIds ==
    Matched =>
        \A i, j \in 1..Len(MatchedRows) :
            i # j => MatchedRows[i].collision_index
                         # MatchedRows[j].collision_index

\* a matched collision within radius of several sample points, from a record
\* set in which an index label repeats
C4_Witness ==
    /\ Matched
    /\ \E i \in 1..Len(MatchedRows) :
           Cardinality(PointsWithin(MatchedRows[i].geometry)) >= 2
    /\ \E i, j \in 1..Len(analyzer.collisions_gdf) :
           /\ i # j
           /\ analyzer.collisions_gdf[i].label = analyzer.collisions_gdf[j].label

\* squared distance from a position to its nearest sample point
NearestPointSq(pt) ==
    SetMin({DistSq(ToUTM(pt), ToUTM(analyzer.sample_points[k])) :
                k \in 1..Len(analyzer.sample_points)})

\* C5: each matched row carries the distance of its own collision to the road
\* line, which is at most its distance to the nearest sample point and at
\* most the radius
C5_DistanceToRoad ==
    ("distance_to_road_m" \in MatchedCols) =>
        \A i \in 1..Len(MatchedRows) :
            LET r == MatchedRows[i]
            IN  /\ r.distance_to_road_m =
                       LineDistSq(ToUTM(r.geometry), LineToUTM(analyzer.road_line))
                /\ r.distance_to_road_m <= NearestPointSq(r.geometry)
                /\ r.distance_to_road_m
                       <= (analyzer.radius * Scale) * (analyzer.radius * Scale)

----------------------------------------------------------------------------
(* Properties of decoding and of CollisionAnalyzer.calculate_statistics *)

\* no record of the analyzer's record set is within radius of a sample point
EmptyMatch ==
    /\ analyzer.constructed
    /\ \A i \in 1..Len(analyzer.collisions_gdf) :
           PointsWithin(analyzer.collisions_gdf[i].geometry) = {}

Calculated == "summary" \in DOMAIN analyzer.statistics

\* C8: with an empty matched set calculate_statistics never raises, and the
\* summary scalars and the percentages it reports are all 0
C8_EmptyMatchAllZero ==
    EmptyMatch =>
        /\ last_exc.call # "calculate_statistics"
        /\ Calculated =>
               LET sm == analyzer.statistics["summary"]
               IN  /\ sm.total_collisions = 0
                   /\ sm.total_casualties = 0
                   /\ sm.avg_casualties_per_collision.num = 0
                   /\ sm.collisions_per_sample_point.num = 0
                   /\ sm.collisions_per_sample_point.den # 0
        /\ ("time" \in DOMAIN analyzer.statistics) =>
               \A n \in DOMAIN analyzer.statistics["time"].time_distribution :
                   analyzer.statistics["time"].time_distribution[n]
                       .percentage.num = 0

RECURSIVE CountSum(_, _)
CountSum(f, keys) ==
    IF keys = {} THEN 0
    ELSE LET k == CHOOSE k \in keys : TRUE
         IN  f[k].count + CountSum(f, keys \ {k})

Dimensions == {"severity", "day_of_week", "weather", "light"}

\* C9: for a non-empty matched set the category counts of each dimension sum
\* to the size of the matched set (the percentages to 100)
C9_CountsSumToTotal ==
    (StatKeys \subseteq DOMAIN analyzer.statistics
        /\ analyzer.statistics["summary"].total_collisions > 0) =>
        \A d \in Dimensions :
            CountSum(analyzer.statistics[d], DOMAIN analyzer.statistics[d])
                = analyzer.statistics["summary"].total_collisions

FallbackLabels == {"Data missing", "Unknown"}

Decoded(r, src, dst, dict) ==
    (r[src] \notin DOMAIN dict) => (r[dst] \in FallbackLabels)

\* C10: a code that is not a key of its lookup table is decoded to an
\* explicit "Data missing"/"Unknown" label
C10_UnknownCodesLabelled ==
    (ObjectCols \subseteq MatchedCols) =>
        \A i \in 1..Len(MatchedRows) :
            /\ Decoded(MatchedRows[i], "collision_severity", "severity_name",
                       SEVERITY_MAP)
            /\ Decoded(MatchedRows[i], "day_of_week", "day_name", DAY_MAP)
            /\ Decoded(MatchedRows[i], "weather_conditions", "weather_name",
                       WEATHER_MAP)
            /\ Decoded(MatchedRows[i], "light_conditions", "light_name",
                       LIGHT_MAP)

----------------------------------------------------------------------------
(* Properties of the hour column *)

AnalyzerCalls ==
    {"find_nearby_collisions", "calculate_statistics", "print_statistics",
     "get_export_data"}

\* C11: a time field whose hour does not parse affects its own record only:
\* no analyzer call fails on it, and every other record within radius is
\* returned with its hour derived
C11_MalformedTimeIsolated ==
    /\ ~(last_exc.call \in AnalyzerCalls /\ last_exc.exc = "ValueError")
    /\ Matched =>
           /\ "hour" \in MatchedCols
           /\ \A i \in 1..Len(analyzer.collisions_gdf) :
                  LET c == analyzer.collisions_gdf[i]
                  IN  (PointsWithin(c.geometry) # {} /\ HourParses(c.time)) =>
                          \E j \in 1..Len(MatchedRows) :
                              /\ MatchedRows[j].collision_index = c.collision_index
                              /\ MatchedRows[j].hour = HourOf(c.time)

TimeCalculated == "time" \in DOMAIN analyzer.statistics

\* the number of matched records of hour h
HourCount(h) ==
    Cardinality({i \in 1..Len(MatchedRows) : MatchedRows[i].hour = h})

BucketsOf(h) ==
    {t \in 1..Len(time_ranges) :
        time_ranges[t].start <= h /\ h <= time_ranges[t].end}

\* C13: every hour 0..23 falls in exactly one of the five buckets, and when
\* every matched hour is in 0..23 the bucket counts sum to total_collisions
C13_BucketsPartition ==
    /\ \A h \in 0..23 : Cardinality(BucketsOf(h)) = 1
    /\ (TimeCalculated /\ \A i \in 1..Len(MatchedRows) :
                              MatchedRows[i].hour \in 0..23) =>
           LET td == analyzer.statistics["time"].time_distribution
           IN  /\ Cardinality(DOMAIN td) = 5
               /\ CountSum(td, DOMAIN td)
                      = analyzer.statistics["summary"].total_collisions

\* matched records at the two ends of one bucket and in another bucket
C13_Witness ==
    /\ TimeCalculated
    /\ \E i, j \in 1..Len(MatchedRows) :
           /\ MatchedRows[i].hour = 15
           /\ MatchedRows[j].hour \in {10, 16}
    /\ analyzer.statistics["summary"].total_collisions = Len(MatchedRows)

----------------------------------------------------------------------------
(* Frame of the analyzer's calls *)

DerivedCols ==
    {"distance_to_road_m", "severity_name", "day_name", "weather_name",
     "light_name", "hour"}

\* C14: the analyzer's calls leave collisions_gdf as it was handed in: the
\* same rows in the same order, none of them carrying a derived column
C14_SourceUnchanged ==
    analyzer.constructed =>
        /\ analyzer.collisions_gdf = input_collisions
        /\ \A i \in 1..Len(analyzer.collisions_gdf) :
               DOMAIN analyzer.collisions_gdf[i] \cap DerivedCols = {}

\* a non-empty matched set carrying every derived column, and its statistics
C14_Witness ==
    /\ Matched
    /\ Len(MatchedRows) > 0
    /\ Len(MatchedRows) < Len(analyzer.collisions_gdf)
    /\ DerivedCols \subseteq MatchedCols
    /\ \A i \in 1..Len(MatchedRows) : DerivedCols \subseteq DOMAIN MatchedRows[i]
    /\ StatKeys \subseteq DOMAIN analyzer.statistics

----------------------------------------------------------------------------
(* Error propagation in the sampler *)

SamplerCalls ==
    {"create_road_line", "project_road", "generate_sample_points",
     "get_road_length", "get_summary"}

InvalidRun == ~ValidGeometry \/ distance_interval <= 0

\* C15: in a run with an invalid road or a non-positive interval no sample
\* point set is produced for the matcher and no analyzer is built on one,
\* and once a sampler call has failed no derived sampler state is left set
C15_FailFast ==
    InvalidRun =>
        /\ ~Sampled
        /\ ~analyzer.constructed
        /\ (last_exc.call \in SamplerCalls) =>
               /\ road_line = None
               /\ road_projected = None
               /\ sample_points = None

----------------------------------------------------------------------------
(* Properties of RoadSampler.fetch_from_osm *)

\* the line segments of the features named after the street
StreetLines == LineStrings(FilteredRoad(street_name, osm_roads))

StreetChains == Chains(street_name, osm_roads)

RECURSIVE TotalLength(_, _)
TotalLength(lines, i) ==
    IF i > Len(lines) THEN 0
    ELSE LineLength(lines[i]) + TotalLength(lines, i + 1)

\* C17: in query mode the road line is one of the chains the street's
\* segments merge into and no chain is longer than it (length of the
\* geometry as fetched), and a call fails only when no line segment of the
\* area is named after the street
C17_LongestChain ==
    from_osm =>
        /\ road_line.some =>
               /\ \E k \in 1..Len(StreetChains) : road_line.val = StreetChains[k]
               /\ \A k \in 1..Len(StreetChains) :
                      LineLength(StreetChains[k]) <= LineLength(road_line.val)
               /\ TotalLength(StreetChains, 1) = TotalLength(StreetLines, 1)
        /\ (last_exc.call \in SamplerCalls) => Len(StreetLines) = 0

\* several chains of different lengths are left, one of them sewn from more
\* than one segment, and the road line was fetched
C17_Witness ==
    /\ from_osm
    /\ road_line.some
    /\ Len(StreetChains) >= 2
    /\ Len(StreetChains) < Len(StreetLines)
    /\ \E j, k \in 1..Len(StreetChains) :
           LineLength(StreetChains[j]) < LineLength(StreetChains[k])

----------------------------------------------------------------------------
(* Derived state of the sampler *)

\* the fields of a sampler built on coords and interval after
\* generate_sample_points
Fresh(coords, interval) ==
    generate_sample_points(SamplerNew(coords, interval, None), <<>>, <<>>).st

\* C16: a project_road, generate_sample_points, get_road_length or
\* get_summary call that returns leaves the projection of the current
\* road_coords in road_projected, and generate_sample_points and get_summary
\* leave the sample points of the current road_coords in sample_points
C16_ProjectionFollowsCoords ==
    [][/\ ((ProjectRoad \/ GenerateSamplePoints \/ GetRoadLength \/ GetSummary)
             /\ last_exc'.exc = NoExc) =>
                road_projected'
                    = Fresh(road_coords', distance_interval').road_projected
       /\ ((GenerateSamplePoints \/ GetSummary) /\ last_exc'.exc = NoExc) =>
                sample_points'
                    = Fresh(road_coords', distance_interval').sample_points
      ]_vars

\* the stages are set in order: sample points only with a projection, a
\* projection only with a road line
StagesInOrder ==
    /\ sample_points.some => (road_projected.some /\ road_projected_gdf.some)
    /\ (road_projected.some \/ road_projected_gdf.some) =>
           (road_line.some /\ road_gdf.some)

\* C18: for a valid road and a positive interval, in every state reached by
\* any order of calls the stages are set in order, and a stage that is set
\* is not computed again by the lazy check of another method: only a call
\* of the stage's own method replaces it
C18_LazyStages ==
    /\ []StagesInOrder
    /\ [][/\ (road_line.some /\ road_line' # road_line) => CreateRoadLine
          /\ (road_projected.some /\ road_projected' # road_projected) =>
                 ProjectRoad
          /\ (sample_points.some /\ sample_points' # sample_points) =>
                 GenerateSamplePoints
         ]_vars

\* every stage is set, the road line is not that of the current road_coords
\* and the later stages are still those of the road line
C18_Witness ==
    /\ ValidGeometry
    /\ distance_interval > 0
    /\ Sampled
    /\ NumPoints > 0
    /\ road_line.val # road_coords
    /\ road_projected.val = LineToUTM(road_line.val)

----------------------------------------------------------------------------
(* Lazy calls of the analyzer *)

\* nearby_collisions is None or carries every derived column, and statistics
\* that are there count the matched set
AnalyzerConsistent ==
    /\ Matched => DerivedCols \subseteq MatchedCols
    /\ Calculated =>
           /\ Matched
           /\ analyzer.statistics["summary"].total_collisions
                  = Len(MatchedRows)

\* C19: calculate_statistics and get_export_data run find_nearby_collisions
\* exactly when nearby_collisions is None, print_statistics runs
\* calculate_statistics exactly when statistics is empty; statistics that are
\* there count the matched set, and nearby_collisions is None or fully
\* annotated in every reachable state, also after a call that raised
C19_AnalyzerLazy ==
    /\ []AnalyzerConsistent
    /\ [][/\ ((CalculateStatistics \/ GetExportData) /\ Matched) =>
                 analyzer'.nearby_collisions = analyzer.nearby_collisions
          /\ ((CalculateStatistics \/ GetExportData) /\ ~Matched
                 /\ last_exc'.exc = NoExc) =>
                 analyzer'.nearby_collisions.some
          /\ (PrintStatistics /\ DOMAIN analyzer.statistics # {}) =>
                 analyzer'.statistics = analyzer.statistics
          /\ (PrintStatistics /\ DOMAIN analyzer.statistics = {}
                 /\ last_exc'.exc = NoExc) =>
                 StatKeys \subseteq DOMAIN analyzer'.statistics
         ]_vars

====
